---- MODULE Spec2Model ----
(***************************************************************************)
(* Model of the two synthetic "OS user" dataset generators:                *)
(*   redshift/data/generate_data_gpt.py  (variant "gpt")                   *)
(*   redshift/generate_dataset.py        (variant "ds")                    *)
(*                                                                         *)
(* Two state machines share the module.  Spec is the incremental writer    *)
(* and run loop (file on disk, the handle's buffer, the program counter,   *)
(* the wall clock, interrupts, successive invocations); LiveSpec is Spec   *)
(* with the fairness the single-threaded interpreter provides.  GenSpec    *)
(* applies the profile synthesizers generate_row / generate_user to every  *)
(* outcome of the random source.                                           *)
(***************************************************************************)
EXTENDS Integers, Sequences, FiniteSets, TLC

VARIABLES
    variant,       \* which program is invoked: "gpt" or "ds"
    exists,        \* the output path names a file
    disk,          \* content of the output file: a sequence of tokens
    buf,           \* text written to the handle and not yet flushed
    fopen,         \* the append handle is open
    pc,            \* position of the process
    now,           \* the wall clock, in seconds
    start_time,    \* gpt: start; ds: start_time
    end,           \* gpt: end = start + timedelta(seconds=MAX_DURATION_SECONDS)
    duration_minutes, \* ds: the --duration argument
    max_duration,  \* ds: max_duration = duration_minutes * 60
    checked,       \* clock value read by the last deadline check
    file_exists,   \* ds: file_exists; gpt: not (tell() == 0)
    row,           \* the record of the current iteration
    row_count,     \* ds: row_count
    exitStatus,    \* "none" while running, "ok" or "error" (traceback)
    runs,          \* invocations so far
    initDisk,      \* history: content of the file before the first invocation
    startExists,   \* history: the file existed when this invocation began
    startDisk,     \* history: content of the file when this invocation began
    headerEnsured, \* history: this invocation executed its header step
    written,       \* history: writerow calls of data rows completed in this invocation
    flushed,       \* history: flush calls after a data row completed in this invocation
    intr,          \* history: position at which the first interrupt arrived, or "none"
    intrOpen,      \* history: an interrupt arrived while the handle was open
    genRow,        \* GenSpec: the record last synthesized
    genFlags       \* GenSpec: generate_row's locals for that record

vars == <<variant, exists, disk, buf, fopen, pc, now, start_time, end,
          duration_minutes, max_duration, checked, file_exists, row, row_count, exitStatus, runs, initDisk,
          startExists, startDisk, headerEnsured, written, flushed, intr,
          intrOpen, genRow, genFlags>>

writerVars == <<variant, exists, disk, buf, fopen, pc, now, start_time, end,
                duration_minutes, max_duration, checked, file_exists, row, row_count, exitStatus,
                runs, initDisk, startExists, startDisk, headerEnsured, written,
                flushed, intr, intrOpen>>

genVars == <<genRow, genFlags>>

-----------------------------------------------------------------------------
(* Bounds of the model *)

\* invocations of the tool on the same output path
MaxRuns == 2
\* data rows one invocation writes before the clock advances
MaxRows == 2
\* granularity of the modelled clock, in seconds
TickSeconds == 600
\* reading of the wall clock when a process starts, in seconds
Epoch == 1000

\* Values of random.random(), in hundredths: one on each side of every
\* threshold either program compares a draw with (0.15, 0.2, 0.3, 0.5, 0.7,
\* 0.8, 0.85), and one inside the interval [0.7, 0.85) of the mac chain.
RandomSamples == {0, 17, 60, 75, 99}

-----------------------------------------------------------------------------
(* Program constants *)

MAX_DURATION_SECONDS == 30 * 60

OS_CHOICES == <<"linux", "windows", "mac">>

OS_TYPES == <<"linux", "windows", "mac">>

BAD_REASONS_MAC ==
    << "newbies", "dummies", "don't know what's doing", "like the apple",
       "read steve jobs book", "feels good using an overpriced product",
       "because people say it's good" >>

GOOD_REASONS_WINDOWS ==
    << "productivity", "compatibility", "gaming", "has linux",
       "has evolved since windows 10" >>

GOOD_REASONS_LINUX ==
    << "like to develop their own drivers", "security", "for work",
       "lightweight", "GUI has evolved", "usability is nice",
       "the Original Linux" >>

\* fieldnames of main() in generate_data_gpt.py
GptFieldnames ==
    << "name", "country", "state", "age", "os", "is_rich", "is_insane",
       "is_nice", "reason" >>

\* fieldnames of run_generator() in generate_dataset.py
DsFieldnames ==
    << "name", "country", "state", "age", "os", "rich", "insane", "is_nice",
       "reason" >>

-----------------------------------------------------------------------------
(* The random source *)

\* random.choice(seq) with the index drawn
Choice(seq, i) == seq[i + 1]

\* random.choices(population, weights)[0]: bisect of r * total in the
\* cumulative weights (weights in hundredths, r in hundredths)
RECURSIVE Choices(_, _, _)
Choices(population, weights, r) ==
    IF Len(population) = 1 \/ r < weights[1]
    THEN population[1]
    ELSE Choices(Tail(population), Tail(weights), r - weights[1])

\* str.lower() on the sampled Faker outputs
Lower(s) ==
    CASE s = "Brazil" -> "brazil"
      [] s = "Japan" -> "japan"
      [] s = "Texas" -> "texas"
      [] s = "Bahia" -> "bahia"
      [] OTHER -> s

-----------------------------------------------------------------------------
(* generate_data_gpt.py: field generators *)

random_name(d) == IF d.rName < 30 THEN d.name_br ELSE d.name

random_country(d) == IF d.rCountry < 30 THEN "brazil" ELSE Lower(d.country)

random_state(country, d) ==
    IF country = "brazil" THEN Lower(d.estado)
    ELSE IF country = "usa" THEN Lower(d.state)
    ELSE Lower(d.state)

random_age(d) == d.age

\* pick_insane with the two label pools exchanged
pick_insane_swapped(is_insane, d) ==
    IF is_insane
    THEN Choice(<<"no", "couldn't be more lucid">>, d.iInsane)
    ELSE Choice(<<"yes", "for sure">>, d.iInsane)

pick_insane(is_insane, d) ==
    IF is_insane
    THEN Choice(<<"yes", "for sure">>, d.iInsane)
    ELSE Choice(<<"no", "couldn't be more lucid">>, d.iInsane)

pick_rich(os_value, force_rich, d) ==
    IF os_value = "mac"
    THEN IF force_rich \/ d.rRich < 15
         THEN "yes"
         ELSE Choice(<<"no", "not at all", "just crazy", "Believe so">>, d.iRich)
    ELSE IF force_rich \/ d.rRich < 20
         THEN "yes"
         ELSE Choice(<<"no", "not at all", "just crazy", "Believe so">>, d.iRich)

generate_reason_template(os_value, d) ==
    LET action == d.word
        adjective == d.word
        tech == d.word
        short_phrase == d.sentence
        medium_phrase == d.sentence
    IN  IF os_value = "mac"
        THEN Choice(
               << "Chose mac because the " \o adjective
                      \o " hardware felt inspiring during " \o action,
                  "Uses mac due to " \o medium_phrase,
                  "Mac seemed like a good idea after " \o short_phrase,
                  "Believes mac helps with " \o tech \o ", for some reason",
                  "Mac felt more premium while dealing with " \o action >>,
               d.iReason)
        ELSE IF os_value = "windows"
        THEN Choice(
               << "Uses windows for improved " \o action \o " and more "
                      \o adjective \o " workflows",
                  "Windows provides better " \o tech
                      \o " support according to " \o short_phrase,
                  "Feels more productive on windows while handling " \o action,
                  "Windows tooling fits the current " \o tech \o " stack" >>,
               d.iReason)
        ELSE Choice(
               << "Linux chosen for " \o tech \o " efficiency and stability",
                  "Believes linux improves " \o action \o " and reliability",
                  "Uses linux because " \o medium_phrase,
                  "Linux gives more control over " \o tech
                      \o " and system behavior" >>,
               d.iReason)

\* generate_row_locals without the default is_nice = "yes": a path that
\* assigns no is_nice leaves it empty
generate_row_locals_unset(os_value, d) ==
    LET defaults == [is_nice |-> "", insane_flag |-> FALSE,
                     force_rich |-> FALSE, problematic |-> FALSE]
    IN  IF os_value = "mac"
        THEN [defaults EXCEPT
                !.insane_flag = TRUE,
                !.is_nice = IF d.rTrait < 70 THEN "yes"
                            ELSE IF d.rTrait < 85 THEN "sometimes"
                            ELSE "no"]
        ELSE IF os_value = "windows"
        THEN IF d.rTrait < 20
             THEN [defaults EXCEPT
                     !.insane_flag = (d.rInsane < 50),
                     !.force_rich = (d.rForce < 50),
                     !.is_nice = "no",
                     !.problematic = TRUE]
             ELSE defaults
        ELSE [defaults EXCEPT !.is_nice = "yes", !.insane_flag = (d.rTrait < 15)]

\* generate_row_locals with the windows perturbation decomposed into
\* independent draws: the insane and rich draws are made outside the 20% branch
generate_row_locals_independent(os_value, d) ==
    LET defaults == [is_nice |-> "yes", insane_flag |-> FALSE,
                     force_rich |-> FALSE, problematic |-> FALSE]
    IN  IF os_value = "mac"
        THEN [defaults EXCEPT
                !.insane_flag = TRUE,
                !.is_nice = IF d.rTrait < 70 THEN "yes"
                            ELSE IF d.rTrait < 85 THEN "sometimes"
                            ELSE "no"]
        ELSE IF os_value = "windows"
        THEN [defaults EXCEPT
                !.insane_flag = (d.rInsane < 50),
                !.force_rich = (d.rForce < 50),
                !.is_nice = IF d.rTrait < 20 THEN "no" ELSE "yes",
                !.problematic = (d.rTrait < 20)]
        ELSE [defaults EXCEPT !.insane_flag = (d.rTrait < 15)]

\* The os-conditioned part of generate_row: its locals after the branch.
\* problematic records that the windows 20% branch was entered.
generate_row_locals(os_value, d) ==
    LET defaults == [is_nice |-> "yes", insane_flag |-> FALSE,
                     force_rich |-> FALSE, problematic |-> FALSE]
    IN  IF os_value = "mac"
        THEN [defaults EXCEPT
                !.insane_flag = TRUE,
                !.is_nice = IF d.rTrait < 70 THEN "yes"
                            ELSE IF d.rTrait < 85 THEN "sometimes"
                            ELSE "no"]
        ELSE IF os_value = "windows"
        THEN IF d.rTrait < 20
             THEN [defaults EXCEPT
                     !.insane_flag = (d.rInsane < 50),
                     !.force_rich = (d.rForce < 50),
                     !.is_nice = "no",
                     !.problematic = TRUE]
             ELSE defaults
        ELSE IF os_value = "linux"
        THEN [defaults EXCEPT !.insane_flag = (d.rTrait < 15)]
        ELSE defaults

generate_row(d) ==
    LET name == random_name(d)
        country == random_country(d)
        state == random_state(country, d)
        age == random_age(d)
        os_value == Choice(OS_CHOICES, d.iOs)
        l == generate_row_locals(os_value, d)
    IN  [ name      |-> name,
          country   |-> country,
          state     |-> state,
          age       |-> age,
          os        |-> os_value,
          is_rich   |-> pick_rich(os_value, l.force_rich, d),
          is_insane |-> pick_insane(l.insane_flag, d),
          is_nice   |-> l.is_nice,
          reason    |-> generate_reason_template(os_value, d) ]

-----------------------------------------------------------------------------
(* generate_dataset.py: profile generators *)

generate_mac_user(d) ==
    [ name    |-> d.name,
      country |-> IF d.rCountry < 80 THEN "brazil" ELSE d.country,
      state   |-> IF d.rState < 70 THEN d.state ELSE d.state_abbr,
      age     |-> d.age,
      os      |-> "mac",
      rich    |-> Choices(<<"no", "yes">>, <<70, 30>>, d.rRich),
      insane  |-> "yes",
      is_nice |-> Choices(<<"yes", "no", "sometimes">>, <<60, 25, 15>>, d.rNice),
      reason  |-> Choice(BAD_REASONS_MAC, d.iReason) ]

generate_windows_user(d) ==
    [ name    |-> d.name,
      country |-> IF d.rCountry < 70 THEN "brazil" ELSE d.country,
      state   |-> IF d.rState < 70 THEN d.state ELSE d.state_abbr,
      age     |-> d.age,
      os      |-> "windows",
      rich    |-> Choices(<<"no", "yes">>, <<60, 40>>, d.rRich),
      insane  |-> Choices(<<"yes", "no">>, <<30, 70>>, d.rInsane),
      is_nice |-> Choices(<<"yes", "no">>, <<65, 35>>, d.rNice),
      reason  |-> Choice(GOOD_REASONS_WINDOWS, d.iReason) ]

generate_linux_user(d) ==
    [ name    |-> d.name,
      country |-> IF d.rCountry < 70 THEN "brazil" ELSE d.country,
      state   |-> IF d.rState < 70 THEN d.state ELSE d.state_abbr,
      age     |-> d.age,
      os      |-> "linux",
      rich    |-> Choices(<<"no", "yes">>, <<50, 50>>, d.rRich),
      insane  |-> Choices(<<"yes", "no">>, <<25, 75>>, d.rInsane),
      is_nice |-> Choices(<<"yes", "no", "sometimes">>, <<70, 15, 15>>, d.rNice),
      reason  |-> Choice(GOOD_REASONS_LINUX, d.iReason) ]

generate_user(d) ==
    LET os_choice == Choices(OS_TYPES, <<35, 35, 30>>, d.rOs)
    IN  IF os_choice = "mac" THEN generate_mac_user(d)
        ELSE IF os_choice = "windows" THEN generate_windows_user(d)
        ELSE generate_linux_user(d)

-----------------------------------------------------------------------------
(* Outcomes of the random source and of Faker for one record.  A draw the  *)
(* code does not reach on that path is pinned to its first value.          *)

\* generate_row: the draws behind name, country, state and age
GptDemographicDraws ==
    { d \in [ rName     : RandomSamples,        \* random_name: random.random()
              name_br   : {"Joao Souza"},       \* fake_br.name()
              name      : {"Ann Lee"},          \* fake.name()
              rCountry  : RandomSamples,        \* random_country: random.random()
              country   : {"Brazil", "Japan"},  \* fake.country()
              estado    : {"Bahia"},            \* fake_br.estado_nome()
              state     : {"Texas"},            \* fake.state()
              age       : {18, 70} ]            \* random.randint(18, 70)
      : d.rCountry < 30 => d.country = "Brazil" }

\* generate_row: the draws behind os, is_rich, is_insane, is_nice and reason
GptTraitDraws ==
    { d \in [ iOs       : 0 .. 2,          \* random.choice(OS_CHOICES)
              rTrait    : RandomSamples,   \* first random.random() of the os branch
              rInsane   : RandomSamples,   \* windows, problematic: insane draw
              rForce    : RandomSamples,   \* windows, problematic: rich draw
              iInsane   : 0 .. 1,          \* pick_insane: random.choice
              rRich     : RandomSamples,   \* pick_rich: random.random()
              iRich     : 0 .. 3,          \* pick_rich: random.choice
              iReason   : 0 .. 4,          \* generate_reason_template: random.choice
              word      : {"sky"},         \* fake.word()
              sentence  : {"Blue sky."} ]  \* fake.sentence()
      : LET os_value == Choice(OS_CHOICES, d.iOs)
            l == generate_row_locals(os_value, d)
        IN  /\ (~l.problematic => d.rInsane = 0 /\ d.rForce = 0)
            /\ (l.force_rich => d.rRich = 0)
            /\ (pick_rich(os_value, l.force_rich, d) = "yes" => d.iRich = 0)
            /\ (os_value # "mac" => d.iReason <= 3) }

\* generate_user: the draws behind name, country, state and age
DsDemographicDraws ==
    { d \in [ name      : {"Ann Lee"},          \* fake.name()
              rCountry  : RandomSamples,        \* country: random.random()
              country   : {"Brazil", "Japan"},  \* fake.country()
              rState    : RandomSamples,        \* state: random.random()
              state     : {"Texas"},            \* fake.state()
              state_abbr: {"TX"},               \* fake.state_abbr()
              age       : {18, 75} ]            \* random.randint(18, 75)
      : d.rCountry < 70 => d.country = "Brazil" }

\* generate_user: the draws behind os, rich, insane, is_nice and reason
DsTraitDraws ==
    { d \in [ rOs       : RandomSamples,   \* generate_user: random.choices
              rRich     : RandomSamples,   \* rich: random.choices
              rInsane   : RandomSamples,   \* insane: random.choices
              rNice     : RandomSamples,   \* is_nice: random.choices
              iReason   : 0 .. 6 ]         \* reason: random.choice
      : LET os_choice == Choices(OS_TYPES, <<35, 35, 30>>, d.rOs)
        IN  /\ (os_choice = "mac" => d.rInsane = 0)
            /\ (os_choice = "windows" => d.iReason <= 4) }

-----------------------------------------------------------------------------
(* GenSpec: the synthesizers applied to every outcome of the random source *)

NoRow == [os |-> "none"]

NoFlags == [is_nice |-> "none", insane_flag |-> FALSE, force_rich |-> FALSE,
            problematic |-> FALSE]

GenInit ==
    /\ genRow = NoRow
    /\ genFlags = NoFlags

\* row = generate_row()
GenerateRow ==
    /\ genRow = NoRow
    /\ \E dem \in GptDemographicDraws, tr \in GptTraitDraws :
          /\ genRow' = generate_row(dem @@ tr)
          /\ genFlags' = generate_row_locals(Choice(OS_CHOICES, tr.iOs), tr)
    /\ UNCHANGED writerVars

\* user = generate_user()
GenerateUser ==
    /\ genRow = NoRow
    /\ \E dem \in DsDemographicDraws, tr \in DsTraitDraws :
          /\ genRow' = generate_user(dem @@ tr)
          /\ genFlags' = NoFlags
    /\ UNCHANGED writerVars

\* the record is serialized and never referenced again
DiscardRow ==
    /\ genRow # NoRow
    /\ genRow' = NoRow
    /\ genFlags' = NoFlags
    /\ UNCHANGED writerVars

GenNext == GenerateRow \/ GenerateUser \/ DiscardRow

-----------------------------------------------------------------------------
(* The output file as text: a sequence of tokens *)

\* the line terminator csv writes ("\r\n"), or a newline of foreign content
NL == [t |-> "nl", f |-> <<>>]

\* one csv record: its fields in order, quoted as needed
Rec(fields) == [t |-> "rec", f |-> fields]

\* foreign blank text: spaces or tabs
Blank == [t |-> "ws", f |-> <<>>]

\* foreign text that is not blank
Junk == [t |-> "txt", f |-> <<"junk">>]

Fieldnames(v) == IF v = "gpt" THEN GptFieldnames ELSE DsFieldnames

\* csv.DictWriter._dict_to_list: the values in fieldnames order, str() of
\* each, restval "" for a missing key
dict_to_list(fieldnames, rowdict) ==
    [ i \in 1 .. Len(fieldnames) |->
        IF fieldnames[i] \notin DOMAIN rowdict THEN ""
        ELSE IF fieldnames[i] = "age" THEN ToString(rowdict.age)
        ELSE rowdict[fieldnames[i]] ]

\* csv.DictWriter.writeheader: one write of the header line
writeheader(fieldnames) == << Rec(fieldnames), NL >>

\* csv.DictWriter.writerow: one write of the record's line
writerow(fieldnames, rowdict) == << Rec(dict_to_list(fieldnames, rowdict)), NL >>

\* f.read().strip() has length > 0
HasContent(content) ==
    \E i \in 1 .. Len(content) : content[i].t \notin {"nl", "ws"}

\* a close that drops what the handle buffers
CloseDiscard(content, pending) == content

\* leaving the with block: close() flushes what the handle buffers
CloseFlush(content, pending) == content \o pending

\* f.flush()
Flush(content, pending) == content \o pending

\* open(path, "w"): the content is truncated
OpenTruncate(content) == <<>>

\* open(path, "a+") / open(path, "a"): the content is kept
OpenAppend(content) == content

-----------------------------------------------------------------------------
(* Inputs of the writer *)

\* files found at the output path before the first invocation
InitialFiles(v) ==
    { [exists |-> FALSE, content |-> <<>>],
      [exists |-> TRUE,  content |-> <<>>],
      [exists |-> TRUE,  content |-> <<NL>>],
      [exists |-> TRUE,  content |-> <<Blank>>],
      [exists |-> TRUE,  content |-> <<Junk, NL>>],
      [exists |-> TRUE,  content |-> writeheader(Fieldnames(v))] }

\* --duration values: 0, one clock step, the default
DurationMinutes == {0, 10, 30}

\* the record the run loop synthesizes (GenSpec covers every outcome)
GptLoopDraws ==
    { dem @@ tr :
        dem \in { d \in GptDemographicDraws :
                    d.rName = 0 /\ d.rCountry = 0 /\ d.age = 18 },
        tr \in { d \in GptTraitDraws :
                    /\ d.iOs = 1 /\ d.rTrait = 0 /\ d.rInsane = 0
                    /\ d.rForce = 0 /\ d.iInsane = 0 /\ d.rRich = 0
                    /\ d.iReason = 0 } }

DsLoopDraws ==
    { dem @@ tr :
        dem \in { d \in DsDemographicDraws :
                    d.rCountry = 0 /\ d.rState = 0 /\ d.age = 18 },
        tr \in { d \in DsTraitDraws :
                    /\ d.rOs = 99 /\ d.rRich = 0 /\ d.rInsane = 0
                    /\ d.rNice = 0 /\ d.iReason = 0 } }

-----------------------------------------------------------------------------
(* Spec: the writer and the run loop *)

Init ==
    /\ variant \in {"gpt", "ds"}
    /\ \E file \in InitialFiles(variant) :
          /\ exists = file.exists
          /\ disk = file.content
          /\ initDisk = file.content
          /\ startDisk = file.content
          /\ startExists = file.exists
    /\ buf = <<>>
    /\ fopen = FALSE
    /\ pc = "idle"
    /\ now = Epoch
    /\ start_time = 0
    /\ end = 0
    /\ duration_minutes = 30
    /\ max_duration = 0
    /\ checked = 0
    /\ file_exists = FALSE
    /\ row = NoRow
    /\ row_count = 0
    /\ exitStatus = "none"
    /\ runs = 0
    /\ headerEnsured = FALSE
    /\ written = 0
    /\ flushed = 0
    /\ intr = "none"
    /\ intrOpen = FALSE
    /\ GenInit

\* the operator invokes the program on the output path
Invoke ==
    /\ pc \in {"idle", "exited"}
    /\ runs < MaxRuns
    /\ runs' = runs + 1
    /\ pc' = "start"
    /\ duration_minutes' \in IF variant = "ds" THEN DurationMinutes ELSE {duration_minutes}
    /\ startDisk' = disk
    /\ startExists' = exists
    /\ start_time' = 0
    /\ end' = 0
    /\ max_duration' = 0
    /\ checked' = 0
    /\ file_exists' = FALSE
    /\ row' = NoRow
    /\ row_count' = 0
    /\ exitStatus' = "none"
    /\ headerEnsured' = FALSE
    /\ written' = 0
    /\ flushed' = 0
    /\ intr' = "none"
    /\ intrOpen' = FALSE
    /\ now' = Epoch
    /\ UNCHANGED <<variant, exists, disk, buf, fopen, initDisk>>
    /\ UNCHANGED genVars

\* the instant at which the deadline of the running invocation elapses
Deadline == IF variant = "gpt" THEN end ELSE start_time + max_duration

\* the wall clock advances while the program runs
Tick ==
    /\ pc \notin {"idle", "start", "exited"}
    /\ now < Deadline
    /\ now' = now + TickSeconds
    /\ UNCHANGED <<variant, exists, disk, buf, fopen, pc, start_time, end,
                   duration_minutes, max_duration, checked, file_exists, row,
                   row_count, exitStatus, runs, initDisk, startExists,
                   startDisk, headerEnsured, written, flushed, intr, intrOpen>>
    /\ UNCHANGED genVars

\* what no step of the program changes
Frame == UNCHANGED <<variant, now, duration_minutes, runs, initDisk,
                     startExists, startDisk, intr, intrOpen, genRow, genFlags>>

(* generate_data_gpt.py: main *)

\* start = datetime.now(); end = start + timedelta(seconds=MAX_DURATION_SECONDS)
GptStart ==
    /\ variant = "gpt" /\ pc = "start"
    /\ start_time' = now
    /\ end' = now + MAX_DURATION_SECONDS
    /\ pc' = "open"
    /\ Frame
    /\ UNCHANGED <<exists, disk, buf, fopen, max_duration, checked, file_exists,
                   row, row_count, exitStatus, headerEnsured, written, flushed>>

\* with open(args.output_file, "a+", newline="", encoding="utf-8") as f
GptOpen ==
    /\ variant = "gpt" /\ pc = "open"
    /\ exists' = TRUE
    /\ disk' = OpenAppend(disk)
    /\ fopen' = TRUE
    /\ pc' = "header"
    /\ Frame
    /\ UNCHANGED <<buf, start_time, end, max_duration, checked, file_exists,
                   row, row_count, exitStatus, headerEnsured, written, flushed>>

\* ensure_header without the tell() == 0 test
GptEnsureHeaderAlways ==
    /\ variant = "gpt" /\ pc = "header"
    /\ file_exists' = (Len(disk) # 0)
    /\ buf' = buf \o writeheader(GptFieldnames)
    /\ pc' = "hflush"
    /\ headerEnsured' = TRUE
    /\ Frame
    /\ UNCHANGED <<exists, disk, fopen, start_time, end, max_duration, checked,
                   row, row_count, exitStatus, written, flushed>>

\* ensure_header: seek to the end; if tell() == 0, writeheader()
GptEnsureHeader ==
    /\ variant = "gpt" /\ pc = "header"
    /\ file_exists' = (Len(disk) # 0)
    /\ IF Len(disk) = 0
       THEN /\ buf' = buf \o writeheader(GptFieldnames)
            /\ pc' = "hflush"
       ELSE /\ buf' = buf
            /\ pc' = "info"
    /\ headerEnsured' = TRUE
    /\ Frame
    /\ UNCHANGED <<exists, disk, fopen, start_time, end, max_duration, checked,
                   row, row_count, exitStatus, written, flushed>>

\* ensure_header: file_obj.flush() after writeheader()
GptHeaderFlush ==
    /\ variant = "gpt" /\ pc = "hflush"
    /\ disk' = Flush(disk, buf)
    /\ buf' = <<>>
    /\ pc' = "info"
    /\ Frame
    /\ UNCHANGED <<exists, fopen, start_time, end, max_duration, checked,
                   file_exists, row, row_count, exitStatus, headerEnsured,
                   written, flushed>>

\* the two [INFO] prints before the loop
GptInfo ==
    /\ variant = "gpt" /\ pc = "info"
    /\ pc' = "check"
    /\ Frame
    /\ UNCHANGED <<exists, disk, buf, fopen, start_time, end, max_duration,
                   checked, file_exists, row, row_count, exitStatus,
                   headerEnsured, written, flushed>>

\* while datetime.now() < end
GptLoopCheck ==
    /\ variant = "gpt" /\ pc = "check"
    /\ (now < end => written < MaxRows)
    /\ checked' = now
    /\ pc' = IF now < end THEN "generate" ELSE "done"
    /\ Frame
    /\ UNCHANGED <<exists, disk, buf, fopen, start_time, end, max_duration,
                   file_exists, row, row_count, exitStatus, headerEnsured,
                   written, flushed>>

\* row = generate_row()
GptGenerate ==
    /\ variant = "gpt" /\ pc = "generate"
    /\ \E d \in GptLoopDraws : row' = generate_row(d)
    /\ pc' = "writerow"
    /\ Frame
    /\ UNCHANGED <<exists, disk, buf, fopen, start_time, end, max_duration,
                   checked, file_exists, row_count, exitStatus, headerEnsured,
                   written, flushed>>

\* writer.writerow(row)
GptWriteRow ==
    /\ variant = "gpt" /\ pc = "writerow"
    /\ buf' = buf \o writerow(GptFieldnames, row)
    /\ written' = written + 1
    /\ pc' = "flush"
    /\ Frame
    /\ UNCHANGED <<exists, disk, fopen, start_time, end, max_duration, checked,
                   file_exists, row, row_count, exitStatus, headerEnsured,
                   flushed>>

\* the loop without its f.flush()
GptFlushSkipped ==
    /\ variant = "gpt" /\ pc = "flush"
    /\ pc' = "sleep"
    /\ Frame
    /\ UNCHANGED <<exists, disk, buf, fopen, start_time, end, max_duration,
                   checked, file_exists, row, row_count, exitStatus,
                   headerEnsured, written, flushed>>

\* f.flush()
GptFlush ==
    /\ variant = "gpt" /\ pc = "flush"
    /\ disk' = Flush(disk, buf)
    /\ buf' = <<>>
    /\ flushed' = flushed + 1
    /\ pc' = "sleep"
    /\ Frame
    /\ UNCHANGED <<exists, fopen, start_time, end, max_duration, checked,
                   file_exists, row, row_count, exitStatus, headerEnsured,
                   written>>

\* time.sleep(0.1)
GptSleep ==
    /\ variant = "gpt" /\ pc = "sleep"
    /\ pc' = "check"
    /\ Frame
    /\ UNCHANGED <<exists, disk, buf, fopen, start_time, end, max_duration,
                   checked, file_exists, row, row_count, exitStatus,
                   headerEnsured, written, flushed>>

\* print("[INFO] Done."), then the with block closes f and main returns
GptDone ==
    /\ variant = "gpt" /\ pc = "done"
    /\ disk' = CloseFlush(disk, buf)
    /\ buf' = <<>>
    /\ fopen' = FALSE
    /\ exitStatus' = "ok"
    /\ pc' = "exited"
    /\ Frame
    /\ UNCHANGED <<exists, start_time, end, max_duration, checked, file_exists,
                   row, row_count, headerEnsured, written, flushed>>

(* generate_dataset.py: run_generator *)

\* start_time = time.time(); max_duration = duration_minutes * 60
DsStart ==
    /\ variant = "ds" /\ pc = "start"
    /\ start_time' = now
    /\ max_duration' = duration_minutes * 60
    /\ pc' = "probe"
    /\ Frame
    /\ UNCHANGED <<exists, disk, buf, fopen, end, checked, file_exists, row,
                   row_count, exitStatus, headerEnsured, written, flushed>>

\* file_exists: the file opens for reading and its stripped content is not
\* empty; FileNotFoundError gives False
DsProbe ==
    /\ variant = "ds" /\ pc = "probe"
    /\ file_exists' = IF exists THEN HasContent(disk) ELSE FALSE
    /\ pc' = "open"
    /\ Frame
    /\ UNCHANGED <<exists, disk, buf, fopen, start_time, end, max_duration,
                   checked, row, row_count, exitStatus, headerEnsured, written,
                   flushed>>

\* with open(filename, 'a', newline='') as csvfile
DsOpen ==
    /\ variant = "ds" /\ pc = "open"
    /\ exists' = TRUE
    /\ disk' = OpenAppend(disk)
    /\ fopen' = TRUE
    /\ pc' = "header"
    /\ Frame
    /\ UNCHANGED <<buf, start_time, end, max_duration, checked, file_exists,
                   row, row_count, exitStatus, headerEnsured, written, flushed>>

\* the header test inverted: if file_exists: writer.writeheader()
DsWriteHeaderInverted ==
    /\ variant = "ds" /\ pc = "header"
    /\ buf' = IF file_exists THEN buf \o writeheader(DsFieldnames) ELSE buf
    /\ headerEnsured' = TRUE
    /\ pc' = "info"
    /\ Frame
    /\ UNCHANGED <<exists, disk, fopen, start_time, end, max_duration, checked,
                   file_exists, row, row_count, exitStatus, written, flushed>>

\* if not file_exists: writer.writeheader()
DsWriteHeader ==
    /\ variant = "ds" /\ pc = "header"
    /\ buf' = IF ~file_exists THEN buf \o writeheader(DsFieldnames) ELSE buf
    /\ headerEnsured' = TRUE
    /\ pc' = "info"
    /\ Frame
    /\ UNCHANGED <<exists, disk, fopen, start_time, end, max_duration, checked,
                   file_exists, row, row_count, exitStatus, written, flushed>>

\* the three prints; row_count = 0
DsInfo ==
    /\ variant = "ds" /\ pc = "info"
    /\ row_count' = 0
    /\ pc' = "check"
    /\ Frame
    /\ UNCHANGED <<exists, disk, buf, fopen, start_time, end, max_duration,
                   checked, file_exists, row, exitStatus, headerEnsured,
                   written, flushed>>

\* the loop without its deadline test: while True with no break
DsLoopCheckNoBreak ==
    /\ variant = "ds" /\ pc = "check"
    /\ written < MaxRows
    /\ checked' = now
    /\ pc' = "generate"
    /\ Frame
    /\ UNCHANGED <<exists, disk, buf, fopen, start_time, end, max_duration,
                   file_exists, row, row_count, exitStatus, headerEnsured,
                   written, flushed>>

\* elapsed = time.time() - start_time; if elapsed >= max_duration: break,
\* which leaves the with block and closes csvfile
DsLoopCheck ==
    /\ variant = "ds" /\ pc = "check"
    /\ (now - start_time < max_duration => written < MaxRows)
    /\ checked' = now
    /\ IF now - start_time >= max_duration
       THEN /\ disk' = CloseFlush(disk, buf)
            /\ buf' = <<>>
            /\ fopen' = FALSE
            /\ pc' = "summary"
       ELSE /\ UNCHANGED <<disk, buf, fopen>>
            /\ pc' = "generate"
    /\ Frame
    /\ UNCHANGED <<exists, start_time, end, max_duration, file_exists, row,
                   row_count, exitStatus, headerEnsured, written, flushed>>

\* user = generate_user()
DsGenerate ==
    /\ variant = "ds" /\ pc = "generate"
    /\ \E d \in DsLoopDraws : row' = generate_user(d)
    /\ pc' = "writerow"
    /\ Frame
    /\ UNCHANGED <<exists, disk, buf, fopen, start_time, end, max_duration,
                   checked, file_exists, row_count, exitStatus, headerEnsured,
                   written, flushed>>

\* writer.writerow(user)
DsWriteRow ==
    /\ variant = "ds" /\ pc = "writerow"
    /\ buf' = buf \o writerow(DsFieldnames, row)
    /\ written' = written + 1
    /\ pc' = "flush"
    /\ Frame
    /\ UNCHANGED <<exists, disk, fopen, start_time, end, max_duration, checked,
                   file_exists, row, row_count, exitStatus, headerEnsured,
                   flushed>>

\* csvfile.flush()
DsFlush ==
    /\ variant = "ds" /\ pc = "flush"
    /\ disk' = Flush(disk, buf)
    /\ buf' = <<>>
    /\ flushed' = flushed + 1
    /\ pc' = "count"
    /\ Frame
    /\ UNCHANGED <<exists, fopen, start_time, end, max_duration, checked,
                   file_exists, row, row_count, exitStatus, headerEnsured,
                   written>>

\* row_count += 1 and the progress print every 100 rows
DsCount ==
    /\ variant = "ds" /\ pc = "count"
    /\ row_count' = row_count + 1
    /\ pc' = "check"
    /\ Frame
    /\ UNCHANGED <<exists, disk, buf, fopen, start_time, end, max_duration,
                   checked, file_exists, row, exitStatus, headerEnsured,
                   written, flushed>>

\* the two prints after the with block; run_generator and main return
DsSummary ==
    /\ variant = "ds" /\ pc = "summary"
    /\ exitStatus' = "ok"
    /\ pc' = "exited"
    /\ Frame
    /\ UNCHANGED <<exists, disk, buf, fopen, start_time, end, max_duration,
                   checked, file_exists, row, row_count, headerEnsured,
                   written, flushed>>

(* KeyboardInterrupt: raised between two statements of the main thread *)

\* positions inside the try block
TryBlock == {"check", "generate", "writerow", "flush", "sleep", "count"}

IntrFrame ==
    /\ intr' = IF intr = "none" THEN pc ELSE intr
    /\ intrOpen' = (intrOpen \/ fopen)
    /\ UNCHANGED <<variant, exists, now, start_time, end, duration_minutes,
                   max_duration, checked, file_exists, row, row_count, runs,
                   initDisk, startExists, startDisk, headerEnsured, written,
                   flushed, genRow, genFlags>>

\* gpt: except KeyboardInterrupt: print(...); execution continues after the try
GptInterruptCaught ==
    /\ variant = "gpt" /\ pc \in TryBlock
    /\ pc' = "done"
    /\ UNCHANGED <<disk, buf, fopen, exitStatus>>
    /\ IntrFrame

\* ds: except KeyboardInterrupt: print(...); the with block is left, closing csvfile
DsInterruptCaught ==
    /\ variant = "ds" /\ pc \in TryBlock
    /\ disk' = CloseFlush(disk, buf)
    /\ buf' = <<>>
    /\ fopen' = FALSE
    /\ pc' = "summary"
    /\ UNCHANGED exitStatus
    /\ IntrFrame

\* inside the with block and outside the try: the with block closes the
\* handle and the exception propagates out of main (traceback)
InterruptInWith ==
    /\ pc \in {"header", "hflush", "info", "done"}
    /\ disk' = CloseFlush(disk, buf)
    /\ buf' = <<>>
    /\ fopen' = FALSE
    /\ exitStatus' = "error"
    /\ pc' = "exited"
    /\ IntrFrame

\* before the handle is opened or after it is closed: the exception
\* propagates out of main (traceback)
InterruptOutside ==
    /\ pc \in {"start", "probe", "open", "summary"}
    /\ exitStatus' = "error"
    /\ pc' = "exited"
    /\ UNCHANGED <<disk, buf, fopen>>
    /\ IntrFrame

Interrupt ==
    \/ GptInterruptCaught
    \/ DsInterruptCaught
    \/ InterruptInWith
    \/ InterruptOutside

Step ==
    \/ GptStart \/ GptOpen \/ GptEnsureHeader \/ GptHeaderFlush \/ GptInfo
    \/ GptLoopCheck \/ GptGenerate \/ GptWriteRow \/ GptFlush \/ GptSleep
    \/ GptDone
    \/ DsStart \/ DsProbe \/ DsOpen \/ DsWriteHeader \/ DsInfo
    \/ DsLoopCheck \/ DsGenerate \/ DsWriteRow \/ DsFlush \/ DsCount
    \/ DsSummary

Next == Invoke \/ Tick \/ Step \/ Interrupt

Spec == Init /\ [][Next]_vars

\* the interpreter executes the next statement, and the clock advances
LiveSpec ==
    /\ Init
    /\ [][Next]_vars
    /\ WF_vars(Step)
    /\ WF_vars(Tick)

\* the synthesizers take no input from the writer: one writer state suffices
GenSpecInit == Init /\ variant = "gpt" /\ ~exists

GenSpec == GenSpecInit /\ [][GenNext]_vars

-----------------------------------------------------------------------------
(* Reading the file back: lines, the header line, complete rows *)

\* index of the first line terminator of a text, 0 when it has none
FirstNL(s) ==
    IF \E i \in 1 .. Len(s) : s[i] = NL
    THEN CHOOSE i \in 1 .. Len(s) :
            s[i] = NL /\ \A j \in 1 .. (i - 1) : s[j] # NL
    ELSE 0

\* the lines of a text, a last line without terminator included
RECURSIVE Lines(_)
Lines(s) ==
    IF s = <<>> THEN <<>>
    ELSE IF FirstNL(s) = 0 THEN <<s>>
    ELSE <<SubSeq(s, 1, FirstNL(s) - 1)>> \o Lines(SubSeq(s, FirstNL(s) + 1, Len(s)))

HeaderLine == << Rec(Fieldnames(variant)) >>

\* the header line is the first line, complete, and no other line is a header
HeaderOnceFirst(s) ==
    /\ Len(s) >= 2
    /\ s[1] = Rec(Fieldnames(variant))
    /\ s[2] = NL
    /\ \A i \in 2 .. Len(Lines(s)) : Lines(s)[i] # HeaderLine

\* a data row: nine non-empty fields, not the header
IsRow(tok) ==
    /\ tok.t = "rec"
    /\ Len(tok.f) = 9
    /\ tok.f # Fieldnames(variant)
    /\ \A i \in 1 .. 9 : tok.f[i] # ""

\* complete data rows and nothing else
RowsOnly(s) ==
    /\ Len(s) % 2 = 0
    /\ \A i \in 1 .. Len(s) : IF i % 2 = 1 THEN IsRow(s[i]) ELSE s[i] = NL

\* one header line, then complete data rows and nothing else
HeaderThenRows(s) ==
    /\ Len(s) >= 2
    /\ SubSeq(s, 1, 2) = writeheader(Fieldnames(variant))
    /\ RowsOnly(SubSeq(s, 3, Len(s)))

IsPrefix(p, s) == Len(p) <= Len(s) /\ SubSeq(s, 1, Len(p)) = p

\* what s holds after its prefix p
After(s, p) == SubSeq(s, Len(p) + 1, Len(s))

\* data rows written to the handle and not yet flushed
UnflushedRows == Cardinality({ i \in 1 .. Len(buf) : IsRow(buf[i]) })

\* the file this invocation found was missing, empty, or a header line
\* followed by complete rows
StartWellFormed == startDisk = <<>> \/ HeaderThenRows(startDisk)

\* the content this invocation's rows are appended to
StartBase ==
    IF startDisk = <<>> THEN writeheader(Fieldnames(variant)) ELSE startDisk

\* the invocation found content the program takes as non-empty
StartNonEmpty ==
    IF variant = "gpt" THEN startDisk # <<>> ELSE HasContent(startDisk)

-----------------------------------------------------------------------------
(* Claims *)

\* C1 as stated: after a run that ended normally against any non-empty
\* existing file, the file holds the header line exactly once, as
\* its first line.
C1_AnyNonEmptyFile ==
    (pc = "exited" /\ exitStatus = "ok" /\ startExists /\ startDisk # <<>>)
        => HeaderOnceFirst(disk)

\* C1 amended: a file that holds the header line exactly once, as its first
\* line, keeps holding it exactly once and first through every step of every
\* later run, on disk and with the pending text of the handle appended.
C1_HeaderKept ==
    (HeaderOnceFirst(initDisk) \/ HeaderOnceFirst(startDisk))
        => HeaderOnceFirst(disk) /\ HeaderOnceFirst(disk \o buf)

C1_Witness ==
    /\ runs = 2 /\ pc = "exited" /\ written > 0
    /\ HeaderOnceFirst(startDisk)
    /\ Len(startDisk) > 2
    /\ HeaderOnceFirst(disk)

\* C2: once a run against a missing or empty file has executed its header
\* step, the text written so far is one header line followed by the data rows
\* written in that run and nothing else, and after the run the file is exactly
\* that, for any number of rows including zero.
C2_FreshFileHeader ==
    (runs > 0 /\ startDisk = <<>> /\ headerEnsured)
        => /\ HeaderThenRows(disk \o buf)
           /\ Len(disk \o buf) = 2 + 2 * written
           /\ (pc = "exited" => buf = <<>> /\ HeaderThenRows(disk))

C2_Witness ==
    /\ pc = "exited" /\ startDisk = <<>> /\ headerEnsured /\ written = 2
    /\ HeaderThenRows(disk)

\* C3 as stated: after a run interrupted inside the loop, the file is the
\* header followed by complete rows, and the rows of this run number exactly
\* the row flushes completed before the interrupt.
C3_RowsEqualFlushes ==
    (pc = "exited" /\ intr \in TryBlock /\ StartWellFormed)
        => /\ IsPrefix(StartBase, disk)
           /\ RowsOnly(After(disk, StartBase))
           /\ Len(After(disk, StartBase)) = 2 * flushed

\* C3 amended: after a run interrupted inside the loop, the file is the
\* header followed by complete rows, and the rows of this run number the
\* writerow calls completed before the interrupt: the completed flushes, and
\* one more exactly when the interrupt arrived between writerow and flush.
C3_RowsEqualWrites ==
    (pc = "exited" /\ intr \in TryBlock /\ StartWellFormed)
        => /\ IsPrefix(StartBase, disk)
           /\ RowsOnly(After(disk, StartBase))
           /\ Len(After(disk, StartBase)) = 2 * written
           /\ written = IF intr = "flush" THEN flushed + 1 ELSE flushed
           /\ buf = <<>>

C3_Witness ==
    /\ pc = "exited" /\ intr = "flush" /\ StartWellFormed
    /\ flushed = 1 /\ written = 2
    /\ Len(After(disk, StartBase)) = 4

\* C4: an interrupt that arrives while the handle is open is caught: the run
\* ends without an error and with the handle closed.
C4_InterruptCaught ==
    (pc = "exited" /\ intrOpen) => (exitStatus = "ok" /\ ~fopen)

\* the deadline the running invocation checks against, from its start
Limit == IF variant = "gpt" THEN end - start_time ELSE max_duration

\* C7: every run terminates, normally when no interrupt arrived; a row is
\* generated and written only in an iteration whose deadline check read a
\* clock value before the deadline; a run of duration 0 on a missing or empty
\* file leaves the header and no row.
C7_Terminates ==
    /\ (pc = "start") ~> (pc = "exited")
    /\ [](pc = "exited" /\ intr = "none" => exitStatus = "ok")
    /\ [](pc \in {"generate", "writerow", "flush"}
            => checked - start_time < Limit)
    /\ []((pc = "exited" /\ intr = "none" /\ variant = "ds"
             /\ duration_minutes = 0 /\ startDisk = <<>>)
            => disk = writeheader(DsFieldnames))

C7_Witness ==
    /\ pc = "exited" /\ exitStatus = "ok" /\ intr = "none"
    /\ written > 0
    /\ checked - start_time >= Limit

\* C8: at most one data row is ever written and not flushed, and none is
\* when the next row is generated or written, during the sleep, at the row
\* count or at a deadline check.
C8_FlushPerRow ==
    /\ UnflushedRows <= 1
    /\ written - flushed <= 1
    /\ (pc \in {"check", "generate", "writerow", "sleep", "count"}
          => UnflushedRows = 0 /\ written = flushed)

C8_Witness ==
    /\ pc = "flush" /\ UnflushedRows = 1 /\ flushed = 1 /\ written = 2

\* C10 as stated: the content a run found is a prefix of the content at any
\* later point of it, and a run on an existing file adds data rows only.
C10_ExistingFileRowsOnly ==
    /\ IsPrefix(startDisk, disk)
    /\ (runs > 0 /\ startExists => RowsOnly(After(disk \o buf, startDisk)))

\* C10 amended: no step removes the file or changes what it holds, each step
\* only appends; a run on a file it takes as non-empty adds data rows only,
\* and a run on a missing, empty or (generate_dataset.py) blank file adds one
\* header line and then data rows only.
C10_AppendOnly ==
    /\ [][IsPrefix(disk, disk') /\ (exists => exists')]_vars
    /\ [](IsPrefix(startDisk, disk))
    /\ [](runs > 0 /\ StartNonEmpty => RowsOnly(After(disk \o buf, startDisk)))
    /\ [](runs > 0 /\ ~StartNonEmpty /\ headerEnsured
            => HeaderThenRows(After(disk \o buf, startDisk)))

C10_Witness ==
    /\ runs = 2 /\ pc = "exited" /\ StartNonEmpty
    /\ Len(disk) > Len(startDisk)
    /\ IsPrefix(startDisk, disk)

\* the nine fields of a record, by program
FieldSets ==
    { { GptFieldnames[i] : i \in 1 .. 9 }, { DsFieldnames[i] : i \in 1 .. 9 } }

\* C5: every synthesized record has exactly the nine fields, each text field
\* is non-empty, age is a number, and os is linux, windows or mac.
C5_FieldsPopulated ==
    genRow # NoRow
        => /\ DOMAIN genRow \in FieldSets
           /\ \A k \in DOMAIN genRow \ {"age"} : genRow[k] # ""
           /\ genRow.age \in 18 .. 75
           /\ genRow.os \in {"linux", "windows", "mac"}

C5_Witness ==
    /\ genRow # NoRow /\ genRow.os = "windows"
    /\ "is_rich" \in DOMAIN genRow
    /\ genRow.is_nice = "yes" /\ genRow.is_rich = "Believe so"

\* C6: a mac record's insanity label is positive: "yes" or "for sure" from
\* generate_row, "yes" from generate_mac_user.
C6_MacInsane ==
    (genRow # NoRow /\ genRow.os = "mac")
        => IF "is_insane" \in DOMAIN genRow
           THEN genRow.is_insane \in {"yes", "for sure"}
           ELSE genRow.insane = "yes"

C6_Witness ==
    /\ genRow # NoRow /\ genRow.os = "mac"
    /\ "is_insane" \in DOMAIN genRow
    /\ genRow.is_insane = "for sure"

\* C9: in a windows record of generate_row the insanity flag or the
\* force-rich override is set only in the problematic branch, that branch
\* sets is_nice to "no", a positive insanity label comes with is_nice "no",
\* is_nice "yes" comes with a negative label, and is_nice is never "sometimes".
C9_WindowsJoint ==
    (genRow # NoRow /\ genRow.os = "windows" /\ "is_insane" \in DOMAIN genRow)
        => /\ (genFlags.insane_flag \/ genFlags.force_rich => genFlags.problematic)
           /\ (genFlags.problematic => genRow.is_nice = "no")
           /\ (genRow.is_insane \in {"yes", "for sure"} => genRow.is_nice = "no")
           /\ (genRow.is_nice = "yes"
                 => genRow.is_insane \in {"no", "couldn't be more lucid"})
           /\ genRow.is_nice # "sometimes"

C9_Witness ==
    /\ genRow # NoRow /\ genRow.os = "windows" /\ "is_insane" \in DOMAIN genRow
    /\ genFlags.problematic /\ genFlags.insane_flag /\ genFlags.force_rich
    /\ genRow.is_insane = "for sure" /\ genRow.is_rich = "yes"
    /\ genRow.is_nice = "no"

====
